---- MODULE Spec2Model ----
(***************************************************************************)
(* Playback sequencing engine of the audiobook reader (src/app.js).        *)
(*                                                                         *)
(* The program is single threaded: every handler (a click, a timer         *)
(* callback, a speech callback) runs to completion, so every handler is    *)
(* one action.  setTimeout continuations are a bag of pending timers, the  *)
(* platform speech service (window.speechSynthesis) is a queue of          *)
(* submitted utterances plus a bag of error events it still owes to        *)
(* utterances that S.cancel() removed.  Timer deadlines are not modelled:  *)
(* any pending timer may fire next.                                        *)
(*                                                                         *)
(* Strings are sequences of one-character strings, so that split works on  *)
(* characters as the regular expression of the source does.  JavaScript    *)
(* indices are 0-based; p[i] of the source is At(p, i) here.               *)
(***************************************************************************)
EXTENDS Integers, Sequences, FiniteSets, Bags, TLC

VARIABLES
    C,        \* const C: the chapters of the loaded book, each [p |-> paragraphs]
    cCh,      \* index of the current chapter
    cP,       \* index of the current paragraph
    playing,  \* 0 = Stopped, 1 = Playing
    sQ,       \* speech unit queue of the paragraph being spoken
    sI,       \* index of the next unit of sQ
    timers,   \* bag of pending setTimeout continuations
    spq,      \* utterances submitted with S.speak and not yet finished
    evq,      \* bag of error events owed to cancelled utterances
    hlI,      \* paragraph index last passed to hl (-1: no highlight)
    pr,       \* <<numerator, denominator>> last written by uPr
    run,      \* number of ply() calls so far: the playback run
    tstN,     \* "book complete" notifications since the last ply()
    log,      \* calls of hl, rCh, tst, S.cancel and S.speak in the last run
    txt,      \* input of split (pure-function specification)
    out,      \* result of split(txt)
    from,     \* argument of fns / fps (pure-function specification)
    ret,      \* result of fns(from) / fps(from)
    ld,       \* openBook calls in progress: each [pc, book]
    exc       \* uncaught TypeErrors thrown by handlers so far

vars ==
    <<C, cCh, cP, playing, sQ, sI, timers, spq, evq, hlI, pr, run, tstN, log, txt, out,
      from, ret, ld, exc>>

(***************************************************************************)
(* Bounds of the model.                                                    *)
(***************************************************************************)
MAX_U == 3        \* unit budget (180 / 250 / 800 in the source)
MaxLen == 6       \* longest input text of split
MaxRun == 2       \* ply() calls in one behaviour; the user is idle after the last
MaxPending == 2   \* pending continuations beyond which the voice is not changed
MaxOver == 1      \* np clicks accepted with cP at or past the end of the chapter
MaxParas == 3     \* longest paragraph sequence given to fns and fps

(***************************************************************************)
(* Characters and strings.                                                 *)
(***************************************************************************)
Punct == {".", "!", "?"}
Ws == {" "}
BRK == <<"#">>          \* the section-break paragraph (the source's one-character marker)
UNDEF == <<"undefined">>

At(p, i) == IF 0 <= i /\ i < Len(p) THEN p[i + 1] ELSE UNDEF

RECURSIVE TrimL(_)
TrimL(t) == IF t # <<>> /\ Head(t) \in Ws THEN TrimL(Tail(t)) ELSE t

RECURSIVE TrimR(_)
TrimR(t) ==
    IF t # <<>> /\ t[Len(t)] \in Ws THEN TrimR(SubSeq(t, 1, Len(t) - 1)) ELSE t

trim(t) == TrimR(TrimL(t))

\* First index >= i (1-based) of t whose character is in S (negate = FALSE)
\* or not in S (negate = TRUE); Len(t) + 1 when there is none.
RECURSIVE Scan(_, _, _, _)
Scan(t, i, S, negate) ==
    IF i > Len(t) THEN i
    ELSE IF (t[i] \in S) # negate THEN i
    ELSE Scan(t, i + 1, S, negate)

\* t.match(/[^.!?]+[.!?]+[\s]*/g): the matches from position pos on.
RECURSIVE matchFrom(_, _)
matchFrom(t, pos) ==
    LET a == Scan(t, pos, Punct, TRUE)       \* first non-punctuation character
        b == Scan(t, a, Punct, FALSE)        \* first punctuation after it
        c == Scan(t, b, Punct, TRUE)         \* end of the punctuation run
        d == Scan(t, c, Ws, TRUE)            \* end of the whitespace run
    IN  IF a > Len(t) \/ b > Len(t) THEN <<>>
        ELSE <<SubSeq(t, a, d - 1)>> \o matchFrom(t, d)

\* r of split: the matches, or [t] when there is none.
spans(t) == LET m == matchFrom(t, 1) IN IF m = <<>> THEN <<t>> ELSE m

\* pack with the budget tested on the buffer alone, before the span is added.
RECURSIVE packBad(_, _, _, _)
packBad(r, k, b, o) ==
    IF k > Len(r) THEN (IF trim(b) # <<>> THEN Append(o, trim(b)) ELSE o)
    ELSE IF Len(b) > MAX_U /\ b # <<>>
         THEN packBad(r, k + 1, r[k], Append(o, trim(b)))
         ELSE packBad(r, k + 1, b \o r[k], o)

\* The for loop of split over r[k..], with buffer b and output o.
RECURSIVE pack(_, _, _, _)
pack(r, k, b, o) ==
    IF k > Len(r) THEN (IF trim(b) # <<>> THEN Append(o, trim(b)) ELSE o)
    ELSE IF Len(b \o r[k]) > MAX_U /\ b # <<>>
         THEN pack(r, k + 1, r[k], Append(o, trim(b)))
         ELSE pack(r, k + 1, b \o r[k], o)

split(t) == IF Len(t) <= MAX_U THEN <<t>> ELSE pack(spans(t), 1, <<>>, <<>>)

(***************************************************************************)
(* The program state as one record, so that the functions of the source    *)
(* compose as they do there: each takes the state and returns the state.   *)
(***************************************************************************)
cur ==
    [C |-> C, cCh |-> cCh, cP |-> cP, playing |-> playing, sQ |-> sQ, sI |-> sI,
     timers |-> timers, spq |-> spq, evq |-> evq, hlI |-> hlI, pr |-> pr,
     run |-> run, tstN |-> tstN, log |-> log]

\* The state after a handler that returned s.
SetState(s) ==
    /\ C' = s.C /\ cCh' = s.cCh /\ cP' = s.cP /\ playing' = s.playing
    /\ sQ' = s.sQ /\ sI' = s.sI /\ timers' = s.timers /\ spq' = s.spq
    /\ evq' = s.evq /\ hlI' = s.hlI /\ pr' = s.pr /\ run' = s.run
    /\ tstN' = s.tstN /\ log' = s.log

Set(s) ==
    /\ SetState(s)
    /\ UNCHANGED <<txt, out, from, ret, ld, exc>>

\* A pending continuation or utterance: kind, the run whose chain made it,
\* the paragraph index its closure holds, the unit index and the unit text.
Cont(kind, r, p, k, t) == [kind |-> kind, run |-> r, p |-> p, k |-> k, txt |-> t]

\* An entry of the log: the call ("ply", "hl", "rCh", "tst", "cancel",
\* "speak") with the index and the unit it was about ("ply": the position
\* and the chapter it started from), or the failure of an utterance
\* ("error") with its paragraph and unit.
Ev(e, i, k, t) == [e |-> e, i |-> i, k |-> k, txt |-> t]

\* The log is kept for the last run of a behaviour, during which there is no
\* user input, when that run starts with no continuation of an earlier run
\* pending; ply() heads it.
Log(s, ev) == IF s.log = <<>> THEN s ELSE [s EXCEPT !.log = Append(@, ev)]

Quiet(s) == s.timers = EmptyBag /\ s.spq = <<>> /\ s.evq = EmptyBag

setTimeout(s, t) == [s EXCEPT !.timers = @ (+) SetToBag({t})]

\* The error events the platform owes after S.cancel(): the utterance being
\* spoken gets error ek, the queued ones 'canceled'.
RECURSIVE cancelEvents(_, _, _)
cancelEvents(q, k, ek) ==
    IF k > Len(q) THEN EmptyBag
    ELSE SetToBag({[run |-> q[k].run, p |-> q[k].p,
                    err |-> IF k = 1 THEN ek ELSE "canceled"]})
         (+) cancelEvents(q, k + 1, ek)

\* S.cancel() that leaves the utterances in the platform's queue.
SCancelNone(s, ek) == s

\* S.cancel()
SCancel(s, ek) ==
    Log([s EXCEPT !.spq = <<>>, !.evq = @ (+) cancelEvents(s.spq, 1, ek)],
        Ev("cancel", 0, 0, <<>>))

\* S.speak(u)
SSpeak(s, u) == Log([s EXCEPT !.spq = Append(@, u)], Ev("speak", u.p, u.k, u.txt))

para(s) == s.C[s.cCh + 1].p

\* fns that steps over one section break only.
fnsOneStep(s, f) == IF f < Len(para(s)) /\ At(para(s), f) = BRK THEN f + 1 ELSE f

RECURSIVE fns(_, _)
fns(s, f) == IF f < Len(para(s)) /\ At(para(s), f) = BRK THEN fns(s, f + 1) ELSE f

RECURSIVE fpsLoop(_, _)
fpsLoop(s, f) == IF f >= 0 /\ At(para(s), f) = BRK THEN fpsLoop(s, f - 1) ELSE f

fps(s, f) == IF fpsLoop(s, f) > 0 THEN fpsLoop(s, f) ELSE 0

\* Number of non-break paragraphs of p with index < n.
RECURSIVE countText(_, _)
countText(p, n) ==
    IF n <= 0 THEN 0
    ELSE countText(p, n - 1) + (IF At(p, n - 1) # BRK THEN 1 ELSE 0)

Min(a, b) == IF a < b THEN a ELSE b

\* uPr whose loop lacks the test i < c.p.length.
uPrNoClamp(s) ==
    [s EXCEPT !.pr = <<countText(para(s), s.cP), countText(para(s), Len(para(s)))>>]

uPr(s) ==
    [s EXCEPT !.pr = <<countText(para(s), Min(s.cP, Len(para(s)))),
                       countText(para(s), Len(para(s)))>>]

hl(s, i) == Log([s EXCEPT !.hlI = i], Ev("hl", i, 0, <<>>))

\* rCh that keeps the paragraph position of the chapter it leaves.
rChKeepsPosition(s, i) ==
    Log(uPr([s EXCEPT !.cCh = i, !.sQ = <<>>, !.sI = 0, !.hlI = -1]),
        Ev("rCh", i, 0, <<>>))

rCh(s, i) ==
    Log(uPr([s EXCEPT !.cCh = i, !.cP = 0, !.sQ = <<>>, !.sI = 0, !.hlI = -1]),
        Ev("rCh", i, 0, <<>>))

tst(s) == Log([s EXCEPT !.tstN = @ + 1], Ev("tst", 0, 0, <<>>))

stp(s, ek) == SCancel([s EXCEPT !.playing = 0], ek)

\* The completion callback spkP(i) hands to spkS.
done(s, r, i) ==
    IF s.playing = 0 THEN s
    ELSE LET ni == fns(s, i + 1)
         IN  setTimeout([s EXCEPT !.cP = ni], Cont("para", r, ni, 0, <<>>))

\* nx of the spkS call made by spkP(i) in the chain of run r.
nx(s, r, i, ek) ==
    IF s.playing = 0 \/ s.sI >= Len(s.sQ) THEN done(s, r, i)
    ELSE setTimeout(SCancel(s, ek), Cont("speak", r, i, s.sI, s.sQ[s.sI + 1]))

spkS(s, r, i, ss, ek) == nx([s EXCEPT !.sQ = ss, !.sI = 0], r, i, ek)

spkP(s, r, i, ek) ==
    IF i >= Len(para(s))
    THEN IF s.cCh < Len(s.C) - 1
         THEN setTimeout(rCh(s, s.cCh + 1), Cont("chap", r, 0, 0, <<>>))
         ELSE tst(stp(s, ek))
    ELSE IF At(para(s), i) = BRK
    THEN setTimeout([s EXCEPT !.cP = fns(s, i + 1)], Cont("brk", r, 0, 0, <<>>))
    ELSE spkS(uPr(hl([s EXCEPT !.cP = i], i)), r, i, split(At(para(s), i)), ek)

ply(s, ek) ==
    LET s1 == [s EXCEPT !.playing = 1, !.run = @ + 1, !.tstN = 0,
                        !.log = IF s.run + 1 = MaxRun /\ Quiet(s)
                                THEN <<Ev("ply", s.cP, s.cCh, <<>>)>> ELSE <<>>]
    IN  spkP(s1, s1.run, fns(s1, s1.cP), ek)

tgl(s, ek) == IF s.playing # 0 THEN stp(s, ek) ELSE ply(s, ek)

jmp(s, i, ek) == ply(uPr(hl([stp(s, ek) EXCEPT !.cP = i], i)), ek)

\* sp of the scrub handler: the indices of the non-break paragraphs.
RECURSIVE textIdx(_, _)
textIdx(p, n) ==
    IF n <= 0 THEN <<>>
    ELSE IF At(p, n - 1) # BRK THEN Append(textIdx(p, n - 1), n - 1)
         ELSE textIdx(p, n - 1)

(***************************************************************************)
(* Handlers of the transport controls (EVENT BINDINGS).                    *)
(***************************************************************************)
ppClick(s, ek) ==
    LET s1 == stp(s, ek)
        s2 == [s1 EXCEPT !.cP = fps(s1, s1.cP - 1)]
    IN  uPr(hl(s2, s2.cP))

npClick(s, ek) ==
    LET s1 == stp(s, ek)
        s2 == [s1 EXCEPT !.cP = fns(s1, s1.cP + 1)]
    IN  uPr(hl(s2, s2.cP))

\* pch.onclick without its stp().
pchClickNoStop(s, ek) == IF s.cCh > 0 THEN rCh(s, s.cCh - 1) ELSE s

pchClick(s, ek) ==
    LET s1 == stp(s, ek) IN IF s1.cCh > 0 THEN rCh(s1, s1.cCh - 1) ELSE s1

nchClick(s, ek) ==
    LET s1 == stp(s, ek)
    IN  IF s1.cCh < Len(s1.C) - 1 THEN rCh(s1, s1.cCh + 1) ELSE s1

\* ti = Math.floor(pct * sp.length), pct in 0..1
pcClick(s, ti, ek) ==
    LET sp == textIdx(para(s), Len(para(s)))
    IN  IF ti < Len(sp)
        THEN LET s1 == [stp(s, ek) EXCEPT !.cP = sp[ti + 1]] IN uPr(hl(s1, s1.cP))
        ELSE s

vcChange(s, ek) == IF s.playing # 0 THEN spkP(SCancel(s, ek), s.run, s.cP, ek) ELSE s

navClick(s, i, ek) == rCh(stp(s, ek), i)

(***************************************************************************)
(* Continuations: the setTimeout callbacks and the utterance callbacks.    *)
(***************************************************************************)
\* setTimeout(() => S.speak(u), ...)
speakTimer(s, t) == SSpeak(s, t)

\* setTimeout(nx, ...)
nxTimer(s, t, ek) == nx(s, t.run, t.p, ek)

\* setTimeout(() => { if (playing) spkP(fns(0)); }, 600)
chapTimer(s, t, ek) == IF s.playing # 0 THEN spkP(s, t.run, fns(s, 0), ek) ELSE s

\* setTimeout(() => { if (playing) spkP(cP); }, 700)
brkTimer(s, t, ek) == IF s.playing # 0 THEN spkP(s, t.run, s.cP, ek) ELSE s

\* The 350 ms callback without its test of playing.
paraTimerNoGuard(s, t, ek) == spkP(s, t.run, t.p, ek)

\* setTimeout(() => { if (playing) spkP(ni); }, 350)
paraTimer(s, t, ek) == IF s.playing # 0 THEN spkP(s, t.run, t.p, ek) ELSE s

\* u.onend that does not advance sI.
onendNoAdvance(s, u) ==
    IF s.playing # 0 THEN setTimeout(s, Cont("nx", u.run, u.p, 0, <<>>)) ELSE s

\* u.onend
onend(s, u) ==
    LET s1 == [s EXCEPT !.sI = @ + 1]
    IN  IF s1.playing # 0 THEN setTimeout(s1, Cont("nx", u.run, u.p, 0, <<>>)) ELSE s1

\* u.onerror that schedules nx without advancing sI.
onerrorRetry(s, u, err) ==
    IF err = "canceled" THEN s
    ELSE IF s.playing # 0 THEN setTimeout(s, Cont("nx", u.run, u.p, 0, <<>>)) ELSE s

\* u.onerror that gives up on every error.
onerrorAbort(s, u, err) == s

\* u.onerror
onerror(s, u, err) ==
    IF err = "canceled" THEN s
    ELSE LET s1 == [s EXCEPT !.sI = @ + 1]
         IN  IF s1.playing # 0 THEN setTimeout(s1, Cont("nx", u.run, u.p, 0, <<>>))
             ELSE s1

(***************************************************************************)
(* Books.  For section breaks written as break lines parseTxt yields no   *)
(* chapter that starts or ends with a section break, nor two section      *)
(* breaks in a row (addBreak and the trailing-break loop); a chapter whose *)
(* text file is missing is empty.                                          *)
(***************************************************************************)
T1 == <<"a", ".">>
T2 == <<"a", ".", " ", "b", ".">>
Ch(p) == [p |-> p]
Books ==
    { <<Ch(<<T1>>), Ch(<<T1, BRK, T2>>)>>,
      <<Ch(<<T1>>), Ch(<<>>), Ch(<<T1>>)>> }

\* error codes of SpeechSynthesisErrorEvent the handlers distinguish
ErrKinds == {"canceled", "interrupted"}

\* ret before fns / fps has been called
NoRet == [fn |-> "none", v |-> 0]

Pending == BagCardinality(timers) + BagCardinality(evq) + Len(spq)

Init ==
    /\ C \in Books
    /\ cCh = 0 /\ cP = 0 /\ playing = 0 /\ sQ = <<>> /\ sI = 0
    /\ timers = EmptyBag /\ spq = <<>> /\ evq = EmptyBag
    /\ hlI = -1
    /\ pr = <<0, countText(C[1].p, Len(C[1].p))>>
    /\ run = 0 /\ tstN = 0 /\ log = <<>>
    /\ txt = <<>> /\ out = <<>>
    /\ from = 0 /\ ret = NoRet /\ ld = <<>> /\ exc = 0

\* The callback of pending timer t.
timerBody(s, t, ek) ==
    CASE t.kind = "speak" -> speakTimer(s, t)
      [] t.kind = "nx" -> nxTimer(s, t, ek)
      [] t.kind = "chap" -> chapTimer(s, t, ek)
      [] t.kind = "brk" -> brkTimer(s, t, ek)
      [] t.kind = "para" -> paraTimer(s, t, ek)

\* pl button
Tgl == \E ek \in ErrKinds :
    /\ run < MaxRun
    /\ Set(tgl(cur, ek))

\* click on a paragraph of the text
Jmp == \E ek \in ErrKinds, i \in 0..(Len(para(cur)) - 1) :
    /\ run < MaxRun
    /\ At(para(cur), i) # BRK
    /\ Set(jmp(cur, i, ek))

PP == \E ek \in ErrKinds :
    /\ run < MaxRun
    /\ Set(ppClick(cur, ek))

NP == \E ek \in ErrKinds :
    /\ run < MaxRun
    /\ cP < Len(para(cur)) + MaxOver
    /\ Set(npClick(cur, ek))

PCH == \E ek \in ErrKinds :
    /\ run < MaxRun
    /\ Set(pchClick(cur, ek))

NCH == \E ek \in ErrKinds :
    /\ run < MaxRun
    /\ Set(nchClick(cur, ek))

PC == \E ek \in ErrKinds, ti \in 0..Len(para(cur)) :
    /\ run < MaxRun
    /\ Set(pcClick(cur, ti, ek))

VcChange == \E ek \in ErrKinds :
    /\ run < MaxRun
    /\ playing # 0
    /\ Pending < MaxPending
    /\ Set(vcChange(cur, ek))

Nav == \E ek \in ErrKinds, i \in 0..(Len(C) - 1) :
    /\ run < MaxRun
    /\ Set(navClick(cur, i, ek))

Take(t) == [cur EXCEPT !.timers = @ (-) SetToBag({t})]

Fire(t, ek) == Set(timerBody(Take(t), t, ek))

FireSpeak == \E ek \in ErrKinds, t \in BagToSet(timers) :
    /\ t.kind = "speak"
    /\ Fire(t, ek)

FireNx == \E ek \in ErrKinds, t \in BagToSet(timers) :
    /\ t.kind = "nx"
    /\ Fire(t, ek)

FireChap == \E ek \in ErrKinds, t \in BagToSet(timers) :
    /\ t.kind = "chap"
    /\ Fire(t, ek)

FireBrk == \E ek \in ErrKinds, t \in BagToSet(timers) :
    /\ t.kind = "brk"
    /\ Fire(t, ek)

FirePara == \E ek \in ErrKinds, t \in BagToSet(timers) :
    /\ t.kind = "para"
    /\ Fire(t, ek)

\* the utterance being spoken completes
OnEnd ==
    /\ spq # <<>>
    /\ Set(onend([cur EXCEPT !.spq = Tail(@)], Head(spq)))

\* the utterance being spoken fails
OnError ==
    /\ spq # <<>>
    /\ Set(Log(onerror([cur EXCEPT !.spq = Tail(@)], Head(spq), "synthesis-failed"),
               Ev("error", Head(spq).p, Head(spq).k, Head(spq).txt)))

\* the error event of a cancelled utterance is delivered
OnCancelled == \E e \in BagToSet(evq) :
    Set(onerror([cur EXCEPT !.evq = @ (-) SetToBag({e})], e, e.err))

Continuation ==
    FireSpeak \/ FireNx \/ FireChap \/ FireBrk \/ FirePara
    \/ OnEnd \/ OnError \/ OnCancelled

Next ==
    \/ Tgl \/ Jmp \/ PP \/ NP \/ PCH \/ NCH \/ PC \/ VcChange \/ Nav
    \/ FireSpeak \/ FireNx \/ FireChap \/ FireBrk \/ FirePara
    \/ OnEnd \/ OnError \/ OnCancelled

Spec == Init /\ [][Next]_vars

\* A continuation can fire exactly when a timer, an utterance or an error
\* event is pending.
ContinuationEnabled == timers # EmptyBag \/ spq # <<>> \/ evq # EmptyBag

\* The event loop runs every due timer and the platform reports the outcome
\* of every utterance: weak fairness of Continuation, with its enabling
\* condition written out.
FairSpec == Spec /\ ([]<>(~ContinuationEnabled) \/ []<><<Continuation>>_vars)

(***************************************************************************)
(* split as a pure function: every text over a small alphabet.             *)
(***************************************************************************)
Alphabet == {"a", ".", " "}
Unset == <<<<"unset">>>>

RECURSIVE Texts(_)
Texts(n) ==
    IF n = 0 THEN {<<>>}
    ELSE Texts(n - 1) \cup {Append(t, c) : t \in {x \in Texts(n - 1) : Len(x) = n - 1}, c \in Alphabet}

SplitInit ==
    /\ C = <<Ch(<<T1>>)>>
    /\ cCh = 0 /\ cP = 0 /\ playing = 0 /\ sQ = <<>> /\ sI = 0
    /\ timers = EmptyBag /\ spq = <<>> /\ evq = EmptyBag
    /\ hlI = -1 /\ pr = <<0, 1>>
    /\ run = 0 /\ tstN = 0 /\ log = <<>>
    /\ txt \in Texts(MaxLen) /\ out = Unset
    /\ from = 0 /\ ret = NoRet /\ ld = <<>> /\ exc = 0

DoSplit ==
    /\ out = Unset
    /\ out' = split(txt)
    /\ UNCHANGED <<C, cCh, cP, playing, sQ, sI, timers, spq, evq, hlI, pr, run,
                   tstN, log, txt, from, ret, ld, exc>>

SplitNext == DoSplit

SplitSpec == SplitInit /\ [][SplitNext]_vars

(***************************************************************************)
(* fns and fps as pure functions: every paragraph sequence of text         *)
(* paragraphs and section breaks up to MaxParas, every argument -1..length.*)
(***************************************************************************)
RECURSIVE ParaSeqs(_)
ParaSeqs(n) ==
    IF n = 0 THEN {<<>>}
    ELSE ParaSeqs(n - 1)
         \cup {Append(q, x) : q \in {y \in ParaSeqs(n - 1) : Len(y) = n - 1}, x \in {T1, BRK}}

CursorInit ==
    /\ C \in {<<Ch(q)>> : q \in ParaSeqs(MaxParas)}
    /\ cCh = 0 /\ cP = 0 /\ playing = 0 /\ sQ = <<>> /\ sI = 0
    /\ timers = EmptyBag /\ spq = <<>> /\ evq = EmptyBag
    /\ hlI = -1 /\ pr = <<0, 0>>
    /\ run = 0 /\ tstN = 0 /\ log = <<>>
    /\ txt = <<>> /\ out = <<>>
    /\ from \in -1..Len(C[1].p) /\ ret = NoRet /\ ld = <<>> /\ exc = 0

DoFns ==
    /\ ret = NoRet /\ from >= 0
    /\ ret' = [fn |-> "fns", v |-> fns(cur, from)]
    /\ UNCHANGED <<C, cCh, cP, playing, sQ, sI, timers, spq, evq, hlI, pr, run,
                   tstN, log, txt, out, from, ld, exc>>

DoFps ==
    /\ ret = NoRet
    /\ ret' = [fn |-> "fps", v |-> fps(cur, from)]
    /\ UNCHANGED <<C, cCh, cP, playing, sQ, sI, timers, spq, evq, hlI, pr, run,
                   tstN, log, txt, out, from, ld, exc>>

CursorNext == DoFns \/ DoFps

CursorSpec == CursorInit /\ [][CursorNext]_vars

(***************************************************************************)
(* Loading a book (LOAD BOOK, OPEN BOOK).  openBook is an async function:  *)
(* it runs stp() and loadBook up to the fetch of book.json, and the rest   *)
(* runs later, resumed at each await.  An entry of ld is one call, at      *)
(* pc "manifest" (awaiting book.json), "texts" (C emptied, awaiting the    *)
(* chapter files) or "done".  Click handlers and continuations run between *)
(* the steps.  When C[cCh] is undefined a handler runs up to the statement *)
(* that reads a property of it, which throws a TypeError; what it assigned *)
(* before stays.                                                           *)
(***************************************************************************)
MaxLoads == 2     \* openBook calls in one behaviour
MaxThrows == 1    \* uncaught TypeErrors in one behaviour
MaxLoadRun == 1   \* ply() calls in one behaviour that loads books

\* C[cCh] is undefined
Dangling(s) == s.cCh >= Len(s.C)

\* Outcome of a handler: the state it leaves, and whether it threw.
Ok(s) == [s |-> s, thrown |-> FALSE]
Throw(s) == [s |-> s, thrown |-> TRUE]

\* ply(): playing = 1; uBtn(); then fns(cP) reads C[cCh].p
plyRun(s, ek) ==
    IF Dangling(s)
    THEN Throw([s EXCEPT !.playing = 1, !.run = @ + 1, !.tstN = 0, !.log = <<>>])
    ELSE Ok(ply(s, ek))

tglRun(s, ek) == IF s.playing # 0 THEN Ok(stp(s, ek)) ELSE plyRun(s, ek)

\* pp.onclick: stp(); then fps(cP - 1) reads C[cCh].p
ppRun(s, ek) == IF Dangling(s) THEN Throw(stp(s, ek)) ELSE Ok(ppClick(s, ek))

\* np.onclick: stp(); then fns(cP + 1) reads C[cCh].p
npRun(s, ek) == IF Dangling(s) THEN Throw(stp(s, ek)) ELSE Ok(npClick(s, ek))

\* pch.onclick: stp(); rCh(cCh - 1) assigns cCh, cP, sQ, sI, then reads c.t
pchRun(s, ek) ==
    IF s.cCh > 0 /\ s.cCh - 1 >= Len(s.C)
    THEN Throw([stp(s, ek) EXCEPT !.cCh = @ - 1, !.cP = 0, !.sQ = <<>>, !.sI = 0])
    ELSE Ok(pchClick(s, ek))

\* pc.onclick: c = C[cCh]; c.p.reduce(...) comes before stp()
pcRun(s, ti, ek) == IF Dangling(s) THEN Throw(s) ELSE Ok(pcClick(s, ti, ek))

\* The callback of pending timer t: with playing set, the 600, 700 and 350 ms
\* callbacks call spkP or fns, and nx at the end of the queue calls done,
\* whose fns(i + 1) reads C[cCh].p; nothing is assigned before.
timerRun(s, t, ek) ==
    IF /\ Dangling(s)
       /\ s.playing # 0
       /\ \/ t.kind \in {"chap", "brk", "para"}
          \/ t.kind = "nx" /\ s.sI >= Len(s.sQ)
    THEN Throw(s)
    ELSE Ok(timerBody(s, t, ek))

\* The state after a handler with outcome r.
Run(r) ==
    /\ r.thrown => exc < MaxThrows
    /\ SetState(r.s)
    /\ exc' = IF r.thrown THEN exc + 1 ELSE exc
    /\ UNCHANGED <<txt, out, from, ret, ld>>

\* openBook(slug) up to the first await of loadBook: stp(), fetch book.json
OpenBook == \E ek \in ErrKinds, b \in Books :
    /\ Len(ld) < MaxLoads
    /\ SetState(stp(cur, ek))
    /\ ld' = Append(ld, [pc |-> "manifest", book |-> b])
    /\ UNCHANGED <<txt, out, from, ret, exc>>

\* loadBook resumed with the manifest: C.length = 0, the chapter files are
\* fetched
LoadClear == \E i \in 1..Len(ld) :
    /\ ld[i].pc = "manifest"
    /\ SetState([cur EXCEPT !.C = <<>>])
    /\ ld' = [ld EXCEPT ![i].pc = "texts"]
    /\ UNCHANGED <<txt, out, from, ret, exc>>

\* loadBook resumed with the texts: C.push for each chapter; then openBook
\* resumes: rNav(); rCh(0)
LoadPush == \E i \in 1..Len(ld) :
    /\ ld[i].pc = "texts"
    /\ SetState(rCh([cur EXCEPT !.C = C \o ld[i].book], 0))
    /\ ld' = [ld EXCEPT ![i].pc = "done"]
    /\ UNCHANGED <<txt, out, from, ret, exc>>

TglL == \E ek \in ErrKinds :
    /\ run < MaxLoadRun
    /\ Run(tglRun(cur, ek))

PPL == \E ek \in ErrKinds :
    /\ run < MaxLoadRun
    /\ Run(ppRun(cur, ek))

NPL == \E ek \in ErrKinds :
    /\ run < MaxLoadRun
    /\ IF Dangling(cur) THEN TRUE ELSE cP < Len(para(cur)) + MaxOver
    /\ Run(npRun(cur, ek))

PCHL == \E ek \in ErrKinds :
    /\ run < MaxLoadRun
    /\ Run(pchRun(cur, ek))

PCL == \E ek \in ErrKinds, ti \in 0..(IF Dangling(cur) THEN 0 ELSE Len(para(cur))) :
    /\ run < MaxLoadRun
    /\ Run(pcRun(cur, ti, ek))

FireL == \E ek \in ErrKinds, t \in BagToSet(timers) :
    /\ t.kind # "speak"
    /\ Run(timerRun(Take(t), t, ek))

LoadNext ==
    \/ OpenBook \/ LoadClear \/ LoadPush
    \/ TglL \/ PPL \/ NPL \/ PCHL \/ NCH \/ PCL
    \/ FireSpeak \/ FireL
    \/ OnEnd \/ OnError \/ OnCancelled

LoadSpec == Init /\ [][LoadNext]_vars

(***************************************************************************)
(* Claims.                                                                 *)
(***************************************************************************)
Stopped == playing = 0
LastChapter == Len(C) - 1

\* The run r has been ended by stp(): it is stopped, or a later run started.
Ended(r) == r < run \/ playing = 0

Frozen ==
    UNCHANGED <<cCh, cP, sQ, sI, spq, evq, hlI, pr, playing, tstN>>

\* C1: a continuation (timer callback, onend, onerror) of a run that stp()
\* ended does nothing when it fires, also after a later ply(): it changes
\* neither position nor unit index, publishes nothing, submits no utterance
\* and schedules nothing.
C1_StaleContinuationIsNoOp ==
    [][/\ \A t \in BagToSet(timers), ek \in ErrKinds :
             (Ended(t.run) /\ Fire(t, ek)) =>
                 (Frozen /\ timers' = timers (-) SetToBag({t}))
       /\ (spq # <<>> /\ Ended(Head(spq).run) /\ (OnEnd \/ OnError)) =>
             (UNCHANGED <<cCh, cP, sQ, sI, evq, hlI, pr, playing, tstN, timers>>)
      ]_vars

\* C2: while Stopped no timer callback and no speech callback changes the
\* position (cCh, cP) or what the publisher shows (highlight, progress).
C2_StoppedPositionFrozen ==
    [][(Stopped /\ Continuation) => UNCHANGED <<cCh, cP, hlI, pr>>]_vars

\* C2 witness: a run was stopped at paragraph 0 with an utterance and a timer
\* pending, both have fired since, and the position is still paragraph 0.
C2_Witness ==
    /\ Stopped /\ run = 1 /\ tstN = 0
    /\ timers = EmptyBag /\ spq = <<>> /\ evq = EmptyBag
    /\ sQ = <<T1>> /\ sI = 1 /\ cCh = 0 /\ cP = 0 /\ hlI = 0

\* C3: at most one utterance is submitted and not yet finished.
C3_OneInFlight == Len(spq) <= 1

\* C4: cCh is a chapter index, cP is within 0..length of the chapter and is
\* not the index of a section break.
C4_PositionValid ==
    /\ cCh \in 0..(Len(C) - 1)
    /\ cP \in 0..Len(para(cur))
    /\ At(para(cur), cP) # BRK

\* C5: a "book complete" notification stops playback, is the only one of its
\* run, and is raised only with the position at the end of the last chapter,
\* that is after the last paragraph's units.
C5_OneNotificationAtBookEnd ==
    [][tstN' = tstN + 1 =>
          /\ tstN' = 1 /\ playing' = 0
          /\ cCh = LastChapter /\ cP >= Len(para(cur))
      ]_vars

\* C6: jmp(j) leaves no utterance in flight and has not submitted a unit of
\* paragraph j when it returns: the first unit of j waits in the submit timer,
\* so every S.cancel() of the jump precedes every S.speak of paragraph j.
C6_JumpCancelsBeforeSubmit ==
    [][Jmp =>
          /\ spq' = <<>>
          /\ \E t \in BagToSet(timers') :
                 t.kind = "speak" /\ t.run = run' /\ t.p = cP' /\ t.k = 0
      ]_vars

\* C6 witness: a jump to paragraph 2 made while paragraph 0 was being spoken:
\* the utterance of paragraph 0 is cancelled, the first unit of paragraph 2
\* is not submitted yet.
C6_Witness ==
    /\ run = 2 /\ playing = 1 /\ cP = 2 /\ spq = <<>>
    /\ \E e \in BagToSet(evq) : e.p = 0 /\ e.run = 1
    /\ \E t \in BagToSet(timers) : t.kind = "speak" /\ t.run = 2 /\ t.p = 2

\* C7: Playing never coexists with no pending timer and no utterance in
\* flight, and once the user is idle a playing book reaches Stopped with one
\* "book complete" notification.
NotStuck == playing = 1 => (timers # EmptyBag \/ spq # <<>>)

C7_NeverStuck ==
    /\ []NotStuck
    /\ (run = MaxRun /\ playing = 1) ~> (Stopped /\ tstN = 1)

\* C7 witness: the last run of a book with an empty chapter has completed.
C7_Witness ==
    /\ Stopped /\ tstN = 1 /\ run = MaxRun
    /\ Len(C) = 3 /\ cCh = 2
    /\ timers = EmptyBag /\ spq = <<>>

\* The hl and S.speak calls of the log before the chapter is left.
RECURSIVE firstEnd(_, _)
firstEnd(l, n) ==
    IF n > Len(l) \/ l[n].e \in {"rCh", "tst"} THEN n ELSE firstEnd(l, n + 1)

IsPubSub(ev) == ev.e \in {"hl", "speak"}

pubSub(l) == SelectSeq(SubSeq(l, 1, firstEnd(l, 1) - 1), IsPubSub)

\* Publish of every non-break paragraph j >= i of p, each followed by the
\* submission of its units in order.
RECURSIVE expected(_, _)
expected(p, j) ==
    IF j >= Len(p) THEN <<>>
    ELSE IF At(p, j) = BRK THEN expected(p, j + 1)
    ELSE <<Ev("hl", j, 0, <<>>)>>
         \o [k \in 1..Len(split(At(p, j))) |-> Ev("speak", j, k - 1, split(At(p, j))[k])]
         \o expected(p, j + 1)

IsPrefix(a, b) == Len(a) <= Len(b) /\ SubSeq(b, 1, Len(a)) = a

\* C8: in an uninterrupted run from position i the publisher is called for
\* the non-break paragraphs >= i of the chapter, in increasing order and each
\* once, and the units of a paragraph are submitted in order, each once,
\* between its publish and the next; at the end of the chapter none is missing.
C8_PublishAndSubmitInOrder ==
    log # <<>> =>
        LET p == C[log[1].k + 1].p
            ex == expected(p, log[1].i)
        IN  /\ IsPrefix(pubSub(log), ex)
            /\ firstEnd(log, 1) <= Len(log) => pubSub(log) = ex

\* C8 witness: the chapter (text, break, two-unit text) played from 0 to the end.
C8_Witness ==
    /\ log # <<>> /\ log[1].i = 0 /\ log[Len(log)].e = "tst"
    /\ C[log[1].k + 1].p = <<T1, BRK, T2>>
    /\ Len(pubSub(log)) = 5

RECURSIVE concat(_)
concat(us) == IF us = <<>> THEN <<>> ELSE Head(us) \o concat(Tail(us))

IsInk(c) == c \notin Ws

\* C9: for a text longer than the budget the units of split, concatenated,
\* hold every non-whitespace character of the text in order.
C9_NoTextDropped ==
    (out # Unset /\ Len(txt) > MAX_U) =>
        SelectSeq(concat(out), IsInk) = SelectSeq(txt, IsInk)

\* C10: for a text longer than the budget every unit of split is within the
\* budget or is one sentence span that alone exceeds it.
C10_UnitsWithinBudget ==
    (out # Unset /\ Len(txt) > MAX_U) =>
        \A n \in 1..Len(out) :
            \/ Len(out[n]) <= MAX_U
            \/ \E m \in 1..Len(spans(txt)) :
                   Len(spans(txt)[m]) > MAX_U /\ trim(spans(txt)[m]) = out[n]

\* C10 witness: a text split into an over-long single sentence and a unit
\* within the budget.
C10_Witness ==
    /\ out # Unset /\ Len(txt) > MAX_U /\ Len(out) >= 2
    /\ \E n \in 1..Len(out) : Len(out[n]) > MAX_U
    /\ \E n \in 1..Len(out) : Len(out[n]) <= MAX_U

AllBreaks(q) == \A j \in 1..Len(q) : q[j] = BRK

\* C11: for 0 <= from <= length, fns returns the smallest index r >= from
\* that is the length or not a section break; never a break index, never
\* more than the length; for an empty or all-break chapter fns(0) is the
\* length.
C11_NextSpeakable ==
    ret.fn = "fns" =>
        LET q == C[1].p
            r == ret.v
        IN  /\ from <= r /\ r <= Len(q)
            /\ At(q, r) # BRK
            /\ \A j \in from..(r - 1) : At(q, j) = BRK
            /\ (from = 0 /\ AllBreaks(q)) => r = Len(q)

\* C11 witness: fns(0) of a chapter of two section breaks is its length.
C11_Witness ==
    /\ ret.fn = "fns" /\ from = 0 /\ C[1].p = <<BRK, BRK>> /\ ret.v = 2

\* C12: for -1 <= from <= length, fps returns an index within
\* 0..max(from, 0) that is not a section break, and the largest index
\* <= from that is not one when there is one.
C12_PrevSpeakable ==
    ret.fn = "fps" =>
        LET q == C[1].p
            r == ret.v
        IN  /\ 0 <= r /\ r <= (IF from > 0 THEN from ELSE 0)
            /\ At(q, r) # BRK
            /\ \A j \in (r + 1)..from : At(q, j) = BRK

\* What Stop() can change and what decides the behaviour of the pending
\* continuations: the playing flag, the position, the unit queue and index,
\* the utterances in flight, the pending timers and the owed error events.
StopView(s) == <<s.playing, s.cCh, s.cP, s.sQ, s.sI, s.spq, s.timers, s.evq>>

StopTwiceIsOnce ==
    \A ek \in ErrKinds, ek2 \in ErrKinds :
        StopView(stp(stp(cur, ek), ek2)) = StopView(stp(cur, ek))

\* C13: from every reachable state stp() twice in a row leaves the state
\* stp() once leaves, and stp() in a Stopped state changes nothing.
C13_StopIdempotent ==
    /\ StopTwiceIsOnce
    /\ Stopped => \A ek \in ErrKinds : StopView(stp(cur, ek)) = StopView(cur)

\* C14: no step submits an utterance (S.speak) while the state is Stopped.
C14_NoSubmitWhileStopped ==
    [][Len(spq') > Len(spq) => playing = 1]_vars

\* The continuations that carry a playback chain on: pending timers,
\* utterances in flight, and owed error events that onerror does not absorb.
Chains ==
    BagCardinality(timers) + Len(spq)
    + BagCardinality([e \in BagToSet(evq) |->
                         IF e.err # "canceled" THEN CopiesIn(e, evq) ELSE 0])

\* C15: after a voice change made while Playing one playback chain is
\* active, and when the position is a paragraph of the chapter that
\* paragraph is published and its first unit is the next one submitted.
C15_VoiceChangeResumesOneChain ==
    [][VcChange =>
          /\ Chains' = 1
          /\ cP < Len(para(cur)) =>
                 /\ cP' = cP /\ hlI' = cP
                 /\ \E t \in BagToSet(timers') :
                        t.kind = "speak" /\ t.p = cP /\ t.k = 0
      ]_vars

\* No chapter change is logged from entry n to entry m.
SameChapter(n, m) == \A j \in n..m : log[j].e # "rCh"

\* After the logged failure of unit k of paragraph i, the units submitted in
\* that chapter are later units of i or units of later paragraphs.
ErrorSkipsUnit ==
    \A n \in 1..Len(log), m \in 1..Len(log) :
        (n < m /\ log[n].e = "error" /\ log[m].e = "speak" /\ SameChapter(n, m)) =>
            \/ log[m].i = log[n].i /\ log[m].k > log[n].k
            \/ log[m].i > log[n].i

ErrorAdvancesOneUnit ==
    (OnError /\ playing = 1) =>
        /\ sI' = sI + 1 /\ playing' = 1 /\ spq' = Tail(spq)
        /\ timers' = timers (+) SetToBag({Cont("nx", Head(spq).run, Head(spq).p, 0, <<>>)})
        /\ UNCHANGED <<cCh, cP, sQ, evq, hlI, pr, tstN>>

CanceledIsAbsorbed ==
    \A e \in BagToSet(evq) :
        (e.err = "canceled" /\ OnCancelled /\ evq' = evq (-) SetToBag({e})) =>
            UNCHANGED <<cCh, cP, playing, sQ, sI, timers, spq, hlI, pr, tstN>>

\* C16: when the utterance in flight fails with an error other than
\* 'canceled' while Playing, onerror advances sI by one, schedules nx, and
\* changes nothing else (the state stays Playing, nothing is submitted), and
\* the failed unit is not submitted again; when the error event of a
\* cancelled utterance says 'canceled', onerror changes nothing and
\* schedules nothing.
C16_ErrorHandledPerUnit ==
    /\ [][ErrorAdvancesOneUnit /\ CanceledIsAbsorbed]_vars
    /\ []ErrorSkipsUnit

\* C16 witness: unit 0 of the two-unit paragraph failed and unit 1 was
\* submitted after it.
C16_Witness ==
    \E n \in 1..Len(log), m \in 1..Len(log) :
        /\ n < m /\ SameChapter(n, m)
        /\ log[n] = Ev("error", 2, 0, <<"a", ".">>)
        /\ log[m].e = "speak" /\ log[m].i = 2 /\ log[m].k = 1

\* The chapter being played when entry n of the log was made.
RECURSIVE chapterAt(_)
chapterAt(n) ==
    IF n <= 1 THEN log[1].k
    ELSE IF log[n].e = "rCh" THEN log[n].i
    ELSE chapterAt(n - 1)

\* The publish and submit entries between entry n and the next chapter
\* change or book end.
segment(n) == pubSub(SubSeq(log, n + 1, Len(log)))

segmentClosed(n) ==
    firstEnd(SubSeq(log, n + 1, Len(log)), 1) <= Len(log) - n

\* In the logged uninterrupted run every chapter change goes to the next
\* chapter, and each chapter entered is played from its first speakable
\* paragraph, every paragraph once; an empty chapter is left at once.
ChaptersInOrder ==
    \A n \in 2..Len(log) :
        log[n].e = "rCh" =>
            /\ log[n].i = chapterAt(n - 1) + 1
            /\ IsPrefix(segment(n), expected(C[log[n].i + 1].p, 0))
            /\ segmentClosed(n) => segment(n) = expected(C[log[n].i + 1].p, 0)

SwitchesToNextChapter ==
    (playing = 1 /\ playing' = 1 /\ cCh' # cCh) =>
        /\ cCh' = cCh + 1 /\ cP' = 0 /\ sQ' = <<>> /\ sI' = 0
        /\ \E t \in BagToSet(timers') : t.kind = "chap"

ContinuesFromChapterStart ==
    (FireChap /\ playing = 1 /\ Len(para(cur)) > 0) =>
        /\ cCh' = cCh /\ cP' = fns(cur, 0) /\ hlI' = cP'
        /\ \E t \in BagToSet(timers') :
               t.kind = "speak" /\ t.p = cP' /\ t.k = 0

\* C17: a step that changes the chapter while Playing goes to chapter
\* cCh + 1, happens with the target index at or past the chapter length,
\* resets the position and schedules the continuation; when that fires while
\* Playing in a chapter with paragraphs, the first speakable paragraph is
\* published and its first unit scheduled; in uninterrupted playback the
\* chapters follow one by one, none skipped, none played twice.
C17_ChapterAdvance ==
    /\ [][SwitchesToNextChapter /\ ContinuesFromChapterStart]_vars
    /\ []ChaptersInOrder

\* C17 witness: the three-chapter book with an empty middle chapter played
\* from chapter 0 to the end of the book.
C17_Witness ==
    /\ log # <<>> /\ log[1].k = 0 /\ Len(C) = 3
    /\ log[Len(log)].e = "tst"
    /\ \E n \in 1..Len(log), m \in 1..Len(log) :
           /\ n < m /\ log[n] = Ev("rCh", 1, 0, <<>>) /\ log[m] = Ev("rCh", 2, 0, <<>>)
           /\ segment(n) = <<>> /\ Len(segment(m)) = 2

StepAndSkipStop == (PP \/ NP \/ PCH \/ NCH) => playing' = 0

SkipAtBoundary ==
    /\ (PCH /\ cCh = 0) => UNCHANGED <<cCh, cP>>
    /\ (NCH /\ cCh = LastChapter) => UNCHANGED <<cCh, cP>>

SkipInsideBook ==
    /\ (PCH /\ cCh > 0) => (cCh' = cCh - 1 /\ cP' = 0)
    /\ (NCH /\ cCh < LastChapter) => (cCh' = cCh + 1 /\ cP' = 0)

StepKeepsChapter == (PP \/ NP) => cCh' = cCh

\* C18: the paragraph step and chapter skip handlers leave the state
\* Stopped; a chapter skip at a book boundary leaves chapter and paragraph
\* unchanged, inside the book it goes to the start of the adjacent chapter; a
\* paragraph step does not change the chapter.
C18_StepAndSkip ==
    [][StepAndSkipStop /\ SkipAtBoundary /\ SkipInsideBook /\ StepKeepsChapter]_vars

\* C18 witness: next-chapter was clicked while chapter 0 was playing, in the
\* pause after its paragraph: Stopped at the start of chapter 1 with the
\* continuation of the run still pending.
C18_Witness ==
    /\ playing = 0 /\ run = 1 /\ cCh = 1 /\ cP = 0
    /\ \E t \in BagToSet(timers) : t.kind = "para" /\ t.run = 1

\* Number of non-break paragraphs of q with index below n.
NonBreakBelow(q, n) ==
    Cardinality({j \in 0..(Len(q) - 1) : j < n /\ q[j + 1] # BRK})

Progress(q, n) == <<NonBreakBelow(q, n), NonBreakBelow(q, Len(q))>>

\* What uPr publishes when called in the current state, and what it last
\* published.
ProgressComputed ==
    /\ uPr(cur).pr = Progress(para(cur), cP)
    /\ uPr(cur).pr[1] <= uPr(cur).pr[2]
    /\ pr[2] = NonBreakBelow(para(cur), Len(para(cur)))
    /\ pr[1] <= pr[2]

\* The handlers that move the position and publish it.
ProgressPublished ==
    (PP \/ NP \/ Jmp \/ Nav) => pr' = Progress(C'[cCh' + 1].p, cP')

OneBook == C = <<>> \/ C \in Books

\* No handler and no continuation has read C[cCh] with cCh outside C.
NoDanglingAccess == exc = 0

\* When openBook has pushed the chapters and reset the position, playback is
\* not running with a continuation pending that carries a paragraph index of
\* the chapter list before.
NoChainSurvivesLoad ==
    LoadPush =>
        ~(/\ playing' # 0
          /\ \E t \in BagToSet(timers') : t.kind \in {"nx", "para"})

\* C20: loading a book is atomic for the controller: while openBook is in
\* progress no handler and no continuation reads C[cCh] with cCh outside the
\* chapter list or goes on with a paragraph position of the book before, and
\* overlapping openBook calls never leave C with chapters of two books.
C20_LoadIsAtomic ==
    /\ [](NoDanglingAccess /\ OneBook)
    /\ [][NoChainSurvivesLoad]_vars

====
